---------------------------- MODULE Spec2Model ----------------------------
(***************************************************************************)
(* A model of gigatar/ratelimiter.                                         *)
(*                                                                         *)
(* Two limiters live in the repository:                                    *)
(*   - the instance-based RateLimiter (New / getVisitor / cleanupVisitors  *)
(*     / Middleware, with Config.Validate), registries "r1" and "r2";      *)
(*   - the package-level limiter of rate-limit.go (Initialize /            *)
(*     getVisitor / cleanupVisitors / RateLimitMiddleware over the         *)
(*     package variables visitors, mx, config), registry "G".              *)
(*                                                                         *)
(* Time is counted in ticks of half a second; tokens in halves of a token, *)
(* so that a bucket can hold a fraction of a token.                        *)
(***************************************************************************)
EXTENDS Integers, Sequences, FiniteSets, TLC

\* ------------------------------------------------------------------ bounds
MaxTime == 4
MaxCalls == 3
MaxInit == 2
MaxKeysTime == 2
MaxInstsTime == 2
MaxInstsCalls == 1
MaxPkgTime == 2
MaxLazyTime == 1
MaxLazyCalls == 2
MaxLiveTime == 2
MaxLiveCalls == 2
MaxEvictTime == 5
MaxEvictCalls == 1
MaxRateTime == 2
MaxRateCalls == 2

\* ------------------------------------------------------------ the universe
Second == 2
Minute == 60 * Second
TokScale == Second

Insts == {"r1", "r2"}
G == "G"
Regs == Insts \cup {G}
Keys == {"a", "b"}
Procs == {"p1", "p2"}
Nil == "nil"

\* Config values are reached through pointers: two cells a caller owns, and
\* per registry the cell DefaultConfig() allocates for it.
UserCells == {"c1", "c2"}
DefCell(r) == CASE r = "G" -> "defG" [] r = "r1" -> "def1" [] r = "r2" -> "def2"
CfgCells == UserCells \cup {DefCell(r) : r \in Regs}

LimIds == 1 .. (Cardinality(Insts) * Cardinality(Keys) + Cardinality(Procs))

Min(a, b) == IF a <= b THEN a ELSE b

\* ------------------------------------------------------------------ Config
MkConfig(rps, burst, ci, mit) ==
    [RequestsPerSecond |-> rps, Burst |-> burst,
     CleanupInterval |-> ci, MaxIdleTime |-> mit]

DefaultConfig == MkConfig(1, 5, Minute, 3 * Minute)

Validate(c) ==
    [c EXCEPT
       !.RequestsPerSecond = IF c.RequestsPerSecond <= 0 THEN 1 ELSE @,
       !.Burst             = IF c.Burst <= 0 THEN 5 ELSE @,
       !.CleanupInterval   = IF c.CleanupInterval < Second THEN Minute ELSE @,
       !.MaxIdleTime       = IF c.MaxIdleTime < Second THEN 3 * Minute ELSE @]

\* Configurations a caller hands in: in range, and out of range in every field.
RawConfigs ==
    { MkConfig(rps, b, ci, mit) :
        rps \in {-1, 0, 1, 2}, b \in {-1, 0, 1, 2},
        ci \in {0, 1, Second}, mit \in {0, 1, Second} }

\* ------------------------------------------- rate.Limiter (x/time/rate)
\* The token bucket of golang.org/x/time/rate, as section 4.1 describes it.
tokensFromDuration(limit, d) ==
    IF limit <= 0 THEN 0 ELSE (d * limit * TokScale) \div Second

NewLimiter(limit, b, t) ==
    [limit |-> limit, burst |-> b, tokens |-> b * TokScale, last |-> t]

advance(l, t) ==
    Min(l.burst * TokScale, l.tokens + tokensFromDuration(l.limit, t - l.last))

AllowOK(l, t) == advance(l, t) >= TokScale

AllowNext(l, t) ==
    [l EXCEPT !.tokens = IF AllowOK(l, t) THEN advance(l, t) - TokScale
                         ELSE advance(l, t),
              !.last = t]

\* A free cell of the limiter memory, and a map slot with no entry.
NoLimiter == [limit |-> 0, burst |-> 0, tokens |-> 0, last |-> 0]
NoVisitor == [limiter |-> 0, lastSeen |-> 0]

\* ------------------------------------------------------------------- state
VARIABLES
    now,        \* wall clock, in ticks
    cfg,        \* the Config values in memory, by cell
    config,     \* per registry: the *Config it holds, or Nil before construction
    visitors,   \* per registry: ip -> [limiter, lastSeen]; limiter 0: no entry
    mx,         \* per registry: who holds the mutex
    sweeper,    \* per registry: its cleanupVisitors goroutines
    lims,       \* the rate.Limiter values in memory, by address
    pc, inst, ip, lp,   \* each request goroutine: where it is, its registry,
                        \* its key, the limiter getVisitor returned to it
    resp,       \* what the handler that ran last answered: "next" or "429"
    shut,       \* the registries whose owner asked for a shutdown
    globalLimiter,   \* the package variable: a registry, or Nil
    mw,         \* per goroutine: the registry of the middleware
                \* RateLimitMiddleware returned to it, or Nil
    admitted,   \* per registry and key: the requests admitted since time 0,
                \* where they are counted
    fresh, nCreated, nAdmit, nReject, base   \* history of the current instant

vars == <<now, cfg, config, visitors, mx, sweeper, lims,
          pc, inst, ip, lp, resp, shut, globalLimiter, mw, admitted,
          fresh, nCreated, nAdmit, nReject, base>>
hist == <<fresh, nCreated, nAdmit, nReject, base>>
procVars == <<pc, inst, ip, lp>>

Zero == [r \in Regs |-> [k \in Keys |-> 0]]

\* The history of an instant, per registry and key. An epoch of a key starts
\* with the instant, and again when a pass removes the key's entry.
\*   fresh     the epoch started with no entry for the key, and with no
\*             request holding a limiter of it
\*   nCreated  the limiters created for the key in the epoch
\*   nAdmit, nReject   the verdicts given for the key in the epoch
\*   base      for a bucket that was exhausted (less than a token left) when
\*             the instant started: left, the tokens its last Allow left in
\*             it, and idle, the time since then (left is -1 when there was
\*             no such bucket, or a request held a limiter of the key that the
\*             map no longer has)
NoBase == [left |-> -1, idle |-> 0]

\* The state before anything is built, the caller's two Config values being
\* v1 and v2.
InitWith(v1, v2) ==
    /\ now = 0
    /\ cfg = [c \in CfgCells |-> CASE c = "c1" -> v1
                                  [] c = "c2" -> v2
                                  [] OTHER -> DefaultConfig]
    /\ config = [r \in Regs |-> Nil]
    /\ visitors = [r \in Regs |-> [k \in Keys |-> NoVisitor]]
    /\ mx = [r \in Regs |-> "free"]
    /\ sweeper = [r \in Regs |-> << >>]
    /\ lims = [i \in LimIds |-> NoLimiter]
    /\ pc = [p \in Procs |-> "idle"]
    /\ inst = [p \in Procs |-> Nil]
    /\ ip = [p \in Procs |-> Nil]
    /\ lp = [p \in Procs |-> 0]
    /\ resp = "none"
    /\ shut = {}
    /\ globalLimiter = Nil
    /\ mw = [p \in Procs |-> Nil]
    /\ admitted = Zero
    /\ fresh = [r \in Regs |-> [k \in Keys |-> TRUE]]
    /\ base = [r \in Regs |-> [k \in Keys |-> NoBase]]
    /\ nCreated = Zero
    /\ nAdmit = Zero
    /\ nReject = Zero

Init == InitWith(MkConfig(1, 1, Second, Second), MkConfig(2, 2, Second, Second))

Conf(r) == cfg[config[r]]

\* ------------------------------------------------------------ bookkeeping
Has(r, k) == visitors[r][k].limiter # 0

\* Requests that already hold a limiter of key k and have yet to call Allow.
Holders(r, k) == {p \in Procs : pc[p] = "allow" /\ inst[p] = r /\ ip[p] = k}

\* The requests registry r has taken in the current instant: the answered ones
\* and those under way.
RECURSIVE Answered(_, _)
Answered(r, K) ==
    IF K = {} THEN 0
    ELSE LET k == CHOOSE x \in K : TRUE
         IN nAdmit[r][k] + nReject[r][k] + Answered(r, K \ {k})

Calls(r) ==
    Answered(r, Keys) + Cardinality({p \in Procs : pc[p] # "idle" /\ inst[p] = r})

\* The limiter cells something still points to, given a map and the pointers held.
Referenced(v, h) ==
    {v[r][k].limiter : r \in Regs, k \in Keys} \cup {h[p] : p \in Procs}

\* The garbage collector: a cell nothing points to is free again.
Collect(l, v, h) ==
    [i \in LimIds |-> IF i \in Referenced(v, h) THEN l[i] ELSE NoLimiter]

\* The address the limiter of key k of registry r is allocated at: a free cell,
\* the key's own when it is free (an address says nothing, so that any free
\* cell does).
Slot(r, k) ==
    (IF r = "r2" THEN Cardinality(Keys) ELSE 0) + (IF k = "a" THEN 1 ELSE 2)

FreeCell(r, k) ==
    IF Slot(r, k) \notin Referenced(visitors, lp) THEN Slot(r, k)
    ELSE CHOOSE i \in LimIds :
               /\ i \notin Referenced(visitors, lp)
               /\ \A j \in LimIds : j \notin Referenced(visitors, lp) => i <= j

\* ---------------------------------------------------------------- New
\* New(cfg): cfg is a *Config of the caller, or nil.
New(r, c) ==
    /\ r \in Insts
    /\ config[r] = Nil
    /\ LET cell == IF c = Nil THEN DefCell(r) ELSE c
           val  == Validate(IF c = Nil THEN DefaultConfig ELSE cfg[c])
       IN /\ cfg' = [cfg EXCEPT ![cell] = val]
          /\ config' = [config EXCEPT ![r] = cell]
          /\ visitors' = [visitors EXCEPT ![r] = [k \in Keys |-> NoVisitor]]
          /\ sweeper' = [sweeper EXCEPT ![r] =
                 << [st |-> "wait", due |-> now + val.CleanupInterval,
                     period |-> val.CleanupInterval] >>]
    /\ UNCHANGED <<admitted, globalLimiter, mw, shut, now, mx, lims, procVars, resp, hist>>

\* --------------------------------------------------- Middleware's handler
\* A request for key k arrives at the handler of registry r, which takes at
\* most n requests in an instant.
Request(p, r, k, n) ==
    /\ pc[p] = "idle"
    /\ config[r] # Nil
    /\ Calls(r) < n
    /\ pc' = [pc EXCEPT ![p] = "getVisitor"]
    /\ inst' = [inst EXCEPT ![p] = r]
    /\ ip' = [ip EXCEPT ![p] = k]
    /\ resp' = "none"
    /\ UNCHANGED <<admitted, globalLimiter, mw, shut, now, cfg, config, visitors, mx, sweeper, lims, lp, hist>>

\* getVisitor: mx.Lock(), then the map lookup.
\* (Variant: the lookup without waiting for the mutex.)
getVisitorLock_NoMutex(p) ==
    /\ pc[p] = "getVisitor"
    /\ mx' = [mx EXCEPT ![inst[p]] = p]
    /\ pc' = [pc EXCEPT ![p] =
                 IF Has(inst[p], ip[p]) THEN "touch" ELSE "create"]
    /\ UNCHANGED <<admitted, globalLimiter, mw, shut, now, cfg, config, visitors, sweeper, lims,
                   inst, ip, lp, resp, hist>>

getVisitorLock(p) ==
    /\ pc[p] = "getVisitor"
    /\ mx[inst[p]] = "free"
    /\ mx' = [mx EXCEPT ![inst[p]] = p]
    /\ pc' = [pc EXCEPT ![p] =
                 IF Has(inst[p], ip[p]) THEN "touch" ELSE "create"]
    /\ UNCHANGED <<admitted, globalLimiter, mw, shut, now, cfg, config, visitors, sweeper, lims,
                   inst, ip, lp, resp, hist>>

\* getVisitor, !exists: a new limiter, a new entry, the deferred Unlock.
\* (Variants: the mutex kept on return; NewLimiter's arguments swapped; one limiter for all the keys of a
\* registry; the entry put in the map of registry "r1", as if the map were the
\* package's.)
getVisitorCreate_NoUnlock(p) ==
    /\ pc[p] = "create"
    /\ LET r == inst[p]
           k == ip[p]
           a == FreeCell(r, k)
       IN /\ lims' = [lims EXCEPT ![a] =
                 NewLimiter(Conf(r).RequestsPerSecond, Conf(r).Burst, now)]
          /\ visitors' = [visitors EXCEPT ![r][k] =
                 [limiter |-> a, lastSeen |-> now]]
          /\ lp' = [lp EXCEPT ![p] = a]
          /\ nCreated' = [nCreated EXCEPT ![r][k] = @ + 1]
    /\ pc' = [pc EXCEPT ![p] = "allow"]
    /\ UNCHANGED <<admitted, globalLimiter, mw, shut, now, cfg, config, mx, sweeper, inst, ip,
                   resp, fresh, nAdmit, nReject, base>>

getVisitorCreate_Swapped(p) ==
    /\ pc[p] = "create"
    /\ LET r == inst[p]
           k == ip[p]
           a == FreeCell(r, k)
       IN /\ lims' = [lims EXCEPT ![a] =
                 NewLimiter(Conf(r).Burst, Conf(r).RequestsPerSecond, now)]
          /\ visitors' = [visitors EXCEPT ![r][k] =
                 [limiter |-> a, lastSeen |-> now]]
          /\ lp' = [lp EXCEPT ![p] = a]
          /\ mx' = [mx EXCEPT ![r] = "free"]
          /\ nCreated' = [nCreated EXCEPT ![r][k] = @ + 1]
    /\ pc' = [pc EXCEPT ![p] = "allow"]
    /\ UNCHANGED <<admitted, globalLimiter, mw, shut, now, cfg, config, sweeper, inst, ip, resp,
                   fresh, nAdmit, nReject, base>>

getVisitorCreate_OneLimiter(p) ==
    /\ pc[p] = "create"
    /\ LET r == inst[p]
           k == ip[p]
           others == {j \in Keys : Has(r, j)}
           a == IF others = {} THEN FreeCell(r, k)
                ELSE visitors[r][CHOOSE j \in others : TRUE].limiter
       IN /\ lims' = IF others = {}
                     THEN [lims EXCEPT ![a] = NewLimiter(
                              Conf(r).RequestsPerSecond, Conf(r).Burst, now)]
                     ELSE lims
          /\ visitors' = [visitors EXCEPT ![r][k] =
                 [limiter |-> a, lastSeen |-> now]]
          /\ lp' = [lp EXCEPT ![p] = a]
          /\ mx' = [mx EXCEPT ![r] = "free"]
          /\ nCreated' = [nCreated EXCEPT ![r][k] = @ + 1]
    /\ pc' = [pc EXCEPT ![p] = "allow"]
    /\ UNCHANGED <<admitted, globalLimiter, mw, shut, now, cfg, config, sweeper, inst, ip, resp,
                   fresh, nAdmit, nReject, base>>

getVisitorCreate_PackageMap(p) ==
    /\ pc[p] = "create"
    /\ LET r == inst[p]
           k == ip[p]
           a == FreeCell(r, k)
       IN /\ lims' = [lims EXCEPT ![a] =
                 NewLimiter(Conf(r).RequestsPerSecond, Conf(r).Burst, now)]
          /\ visitors' = [visitors EXCEPT !["r1"][k] =
                 [limiter |-> a, lastSeen |-> now]]
          /\ lp' = [lp EXCEPT ![p] = a]
          /\ mx' = [mx EXCEPT ![r] = "free"]
          /\ nCreated' = [nCreated EXCEPT ![r][k] = @ + 1]
    /\ pc' = [pc EXCEPT ![p] = "allow"]
    /\ UNCHANGED <<admitted, globalLimiter, mw, shut, now, cfg, config, sweeper, inst, ip, resp,
                   fresh, nAdmit, nReject, base>>

getVisitorCreate(p) ==
    /\ pc[p] = "create"
    /\ LET r == inst[p]
           k == ip[p]
           a == FreeCell(r, k)
       IN /\ lims' = [lims EXCEPT ![a] =
                 NewLimiter(Conf(r).RequestsPerSecond, Conf(r).Burst, now)]
          /\ visitors' = [visitors EXCEPT ![r][k] =
                 [limiter |-> a, lastSeen |-> now]]
          /\ lp' = [lp EXCEPT ![p] = a]
          /\ mx' = [mx EXCEPT ![r] = "free"]
          /\ nCreated' = [nCreated EXCEPT ![r][k] = @ + 1]
    /\ pc' = [pc EXCEPT ![p] = "allow"]
    /\ UNCHANGED <<admitted, globalLimiter, mw, shut, now, cfg, config, sweeper, inst, ip, resp,
                   fresh, nAdmit, nReject, base>>

\* getVisitor, exists: lastSeen = time.Now(), the deferred Unlock.
\* (Variants: the entry gets a new limiter on every visit; lastSeen is left as
\* it was.)
getVisitorTouch_NoStamp(p) ==
    /\ pc[p] = "touch"
    /\ LET r == inst[p]
           k == ip[p]
       IN /\ lp' = [lp EXCEPT ![p] = visitors[r][k].limiter]
          /\ mx' = [mx EXCEPT ![r] = "free"]
    /\ pc' = [pc EXCEPT ![p] = "allow"]
    /\ UNCHANGED <<admitted, globalLimiter, mw, shut, now, cfg, config, visitors, sweeper, lims,
                   inst, ip, resp, hist>>

getVisitorTouch_Renew(p) ==
    /\ pc[p] = "touch"
    /\ LET r == inst[p]
           k == ip[p]
           a == visitors[r][k].limiter
       IN /\ visitors' = [visitors EXCEPT ![r][k].lastSeen = now]
          /\ lims' = [lims EXCEPT ![a] =
                 NewLimiter(Conf(r).RequestsPerSecond, Conf(r).Burst, now)]
          /\ lp' = [lp EXCEPT ![p] = a]
          /\ mx' = [mx EXCEPT ![r] = "free"]
    /\ pc' = [pc EXCEPT ![p] = "allow"]
    /\ UNCHANGED <<admitted, globalLimiter, mw, shut, now, cfg, config, sweeper, inst, ip, resp, hist>>

getVisitorTouch(p) ==
    /\ pc[p] = "touch"
    /\ LET r == inst[p]
           k == ip[p]
       IN /\ visitors' = [visitors EXCEPT ![r][k].lastSeen = now]
          /\ lp' = [lp EXCEPT ![p] = visitors[r][k].limiter]
          /\ mx' = [mx EXCEPT ![r] = "free"]
    /\ pc' = [pc EXCEPT ![p] = "allow"]
    /\ UNCHANGED <<admitted, globalLimiter, mw, shut, now, cfg, config, sweeper, lims, inst, ip, resp, hist>>

\* limiter.Allow(), then 429 or next.ServeHTTP.
\* (Variants: the token is taken whatever the verdict, as limiter.Reserve()
\* does; the handler without its return after http.Error, so that next runs
\* after the 429; a rejected request's entry dropped from the map.)
MiddlewareAllow_DropRejected(p) ==
    /\ pc[p] = "allow"
    /\ LET r  == inst[p]
           k  == ip[p]
           ok == AllowOK(lims[lp[p]], now)
           h  == [lp EXCEPT ![p] = 0]
           v  == IF ok THEN visitors ELSE [visitors EXCEPT ![r][k] = NoVisitor]
       IN /\ resp' = (IF ok THEN "next" ELSE "429")
          /\ lp' = h
          /\ visitors' = v
          /\ lims' = Collect([lims EXCEPT ![lp[p]] = AllowNext(@, now)], v, h)
          /\ nAdmit' = [nAdmit EXCEPT ![r][k] = IF ok THEN @ + 1 ELSE @]
          /\ nReject' = [nReject EXCEPT ![r][k] = IF ok THEN @ ELSE @ + 1]
    /\ pc' = [pc EXCEPT ![p] = "idle"]
    /\ inst' = [inst EXCEPT ![p] = Nil]
    /\ ip' = [ip EXCEPT ![p] = Nil]
    /\ UNCHANGED <<admitted, globalLimiter, mw, shut, now, cfg, config, mx, sweeper,
                   fresh, nCreated, base>>

MiddlewareAllow_NoReturn(p) ==
    /\ pc[p] = "allow"
    /\ LET r  == inst[p]
           k  == ip[p]
           ok == AllowOK(lims[lp[p]], now)
           h  == [lp EXCEPT ![p] = 0]
       IN /\ resp' = (IF ok THEN "next" ELSE "429,next")
          /\ lp' = h
          /\ lims' = Collect([lims EXCEPT ![lp[p]] = AllowNext(@, now)],
                             visitors, h)
          /\ nAdmit' = [nAdmit EXCEPT ![r][k] = IF ok THEN @ + 1 ELSE @]
          /\ nReject' = [nReject EXCEPT ![r][k] = IF ok THEN @ ELSE @ + 1]
    /\ pc' = [pc EXCEPT ![p] = "idle"]
    /\ inst' = [inst EXCEPT ![p] = Nil]
    /\ ip' = [ip EXCEPT ![p] = Nil]
    /\ UNCHANGED <<admitted, globalLimiter, mw, shut, now, cfg, config, visitors, mx, sweeper,
                   fresh, nCreated, base>>

MiddlewareAllow_Reserve(p) ==
    /\ pc[p] = "allow"
    /\ LET r  == inst[p]
           k  == ip[p]
           ok == AllowOK(lims[lp[p]], now)
           h  == [lp EXCEPT ![p] = 0]
       IN /\ resp' = (IF ok THEN "next" ELSE "429")
          /\ lp' = h
          /\ lims' = Collect([lims EXCEPT ![lp[p]] =
                                 [limit |-> @.limit, burst |-> @.burst,
                                  tokens |-> advance(@, now) - TokScale,
                                  last |-> now]],
                             visitors, h)
          /\ nAdmit' = [nAdmit EXCEPT ![r][k] = IF ok THEN @ + 1 ELSE @]
          /\ nReject' = [nReject EXCEPT ![r][k] = IF ok THEN @ ELSE @ + 1]
    /\ pc' = [pc EXCEPT ![p] = "idle"]
    /\ inst' = [inst EXCEPT ![p] = Nil]
    /\ ip' = [ip EXCEPT ![p] = Nil]
    /\ UNCHANGED <<admitted, globalLimiter, mw, shut, now, cfg, config, visitors, mx, sweeper,
                   fresh, nCreated, base>>

Handler(p) ==
    /\ pc[p] = "allow"
    /\ LET r  == inst[p]
           k  == ip[p]
           ok == AllowOK(lims[lp[p]], now)
           h  == [lp EXCEPT ![p] = 0]
       IN /\ resp' = (IF ok THEN "next" ELSE "429")
          /\ lp' = h
          /\ lims' = Collect([lims EXCEPT ![lp[p]] = AllowNext(@, now)],
                             visitors, h)
          /\ nAdmit' = [nAdmit EXCEPT ![r][k] = IF ok THEN @ + 1 ELSE @]
          /\ nReject' = [nReject EXCEPT ![r][k] = IF ok THEN @ ELSE @ + 1]
    /\ pc' = [pc EXCEPT ![p] = "idle"]
    /\ inst' = [inst EXCEPT ![p] = Nil]
    /\ ip' = [ip EXCEPT ![p] = Nil]
    /\ UNCHANGED <<globalLimiter, mw, shut, now, cfg, config, visitors, mx, sweeper,
                   fresh, nCreated, base>>

MiddlewareAllow(p) == Handler(p) /\ UNCHANGED admitted

\* The same step, the admitted requests being counted from time 0 on.
MiddlewareAllowCounted(p) ==
    /\ Handler(p)
    /\ admitted' = [admitted EXCEPT ![inst[p]][ip[p]] =
                        IF resp' = "next" THEN @ + 1 ELSE @]

\* ------------------------------------------------------- cleanupVisitors
\* The map a pass over registry r leaves behind:
\* time.Since(v.lastSeen) >= rl.config.MaxIdleTime deletes.
Swept(r) ==
    [k \in Keys |-> IF /\ Has(r, k)
                       /\ now - visitors[r][k].lastSeen >= Conf(r).MaxIdleTime
                    THEN NoVisitor ELSE visitors[r][k]]

\* What a pass that leaves map v behind does to the history of the instant:
\* for a key it removed, a new epoch starts.
Removed(r, v) == {k \in Keys : Has(r, k) /\ v[k].limiter = 0}

PassHistory(r, v) ==
    /\ fresh' = [fresh EXCEPT ![r] = [k \in Keys |->
           IF k \in Removed(r, v) THEN Holders(r, k) = {} ELSE fresh[r][k]]]
    /\ nCreated' = [nCreated EXCEPT ![r] = [k \in Keys |->
           IF k \in Removed(r, v) THEN 0 ELSE nCreated[r][k]]]
    /\ nAdmit' = [nAdmit EXCEPT ![r] = [k \in Keys |->
           IF k \in Removed(r, v) THEN 0 ELSE nAdmit[r][k]]]
    /\ nReject' = [nReject EXCEPT ![r] = [k \in Keys |->
           IF k \in Removed(r, v) THEN 0 ELSE nReject[r][k]]]
    /\ base' = [base EXCEPT ![r] = [k \in Keys |->
           IF k \in Removed(r, v) THEN NoBase ELSE base[r][k]]]

\* The first tick of a ticker of the given period after time t, one being due
\* at time due.
NextTick(due, period, t) == due + period * (((t - due) \div period) + 1)

\* for range ticker.C, then mx.Lock().
\* (Variant: the pass starts without waiting for the mutex.)
cleanupLock_NoMutex(r) ==
    /\ r \in Insts
    /\ Len(sweeper[r]) = 1
    /\ sweeper[r][1].st = "wait"
    /\ now >= sweeper[r][1].due
    /\ mx' = [mx EXCEPT ![r] = "sweeper"]
    /\ sweeper' = [sweeper EXCEPT ![r][1].st = "locked",
           ![r][1].due = NextTick(@, sweeper[r][1].period, now)]
    /\ UNCHANGED <<admitted, globalLimiter, mw, shut, now, cfg, config, visitors, lims, procVars, resp, hist>>

cleanupLock(r) ==
    /\ r \in Insts
    /\ Len(sweeper[r]) = 1
    /\ sweeper[r][1].st = "wait"
    /\ now >= sweeper[r][1].due
    /\ mx[r] = "free"
    /\ mx' = [mx EXCEPT ![r] = "sweeper"]
    /\ sweeper' = [sweeper EXCEPT ![r][1].st = "locked",
           ![r][1].due = NextTick(@, sweeper[r][1].period, now)]
    /\ UNCHANGED <<admitted, globalLimiter, mw, shut, now, cfg, config, visitors, lims, procVars, resp, hist>>

\* The loop over the map, then mx.Unlock().
\* (Variant: a timer in place of the ticker, so that the first pass is the
\* last.)
cleanupPass_Once(r) ==
    /\ r \in Insts
    /\ Len(sweeper[r]) = 1
    /\ sweeper[r][1].st = "locked"
    /\ LET v == Swept(r)
       IN /\ visitors' = [visitors EXCEPT ![r] = v]
          /\ lims' = Collect(lims, [visitors EXCEPT ![r] = v], lp)
          /\ PassHistory(r, v)
    /\ mx' = [mx EXCEPT ![r] = "free"]
    /\ sweeper' = [sweeper EXCEPT ![r][1].st = "done"]
    /\ UNCHANGED <<admitted, globalLimiter, mw, shut, now, cfg, config, procVars, resp>>

cleanupPass(r) ==
    /\ r \in Insts
    /\ Len(sweeper[r]) = 1
    /\ sweeper[r][1].st = "locked"
    /\ LET v == Swept(r)
       IN /\ visitors' = [visitors EXCEPT ![r] = v]
          /\ lims' = Collect(lims, [visitors EXCEPT ![r] = v], lp)
          /\ PassHistory(r, v)
    /\ mx' = [mx EXCEPT ![r] = "free"]
    /\ sweeper' = [sweeper EXCEPT ![r][1].st = "wait"]
    /\ UNCHANGED <<admitted, globalLimiter, mw, shut, now, cfg, config, procVars, resp>>

\* ------------------------------------------------------------------ time
\* Half a second passes. A new instant starts: its history is empty, and a key
\* is fresh in it when it has no entry and no request still holds a limiter
\* of it.
Tick(T) ==
    /\ now < T
    /\ now' = now + 1
    /\ fresh' = [r \in Regs |-> [k \in Keys |->
                    ~Has(r, k) /\ Holders(r, k) = {}]]
    /\ nCreated' = Zero
    /\ nAdmit' = Zero
    /\ nReject' = Zero
    /\ base' = [r \in Regs |-> [k \in Keys |->
                   IF /\ Has(r, k)
                      /\ lims[visitors[r][k].limiter].tokens < TokScale
                      /\ \A p \in Holders(r, k) : lp[p] = visitors[r][k].limiter
                   THEN [left |-> lims[visitors[r][k].limiter].tokens,
                         idle |-> now + 1 - lims[visitors[r][k].limiter].last]
                   ELSE NoBase]]
    /\ UNCHANGED <<admitted, globalLimiter, mw, shut, cfg, config, visitors, mx, sweeper, lims, procVars, resp>>

\* ------------------------------------------------------- the RateLimiter
\* The steps of the registries R until time T; C says which registry may be
\* built from which *Config, S which goroutine serves requests to which
\* registry, K for which keys, and N how many requests in an instant.
NextOn(R, K, C, S, T, N) ==
    \/ \E c \in C : New(c[1], c[2])
    \/ \E s \in S, k \in K : Request(s[1], s[2], k, N)
    \/ \E p \in Procs : getVisitorLock(p)
    \/ \E p \in Procs : getVisitorCreate(p)
    \/ \E p \in Procs : getVisitorTouch(p)
    \/ \E p \in Procs : MiddlewareAllow(p)
    \/ \E r \in R : cleanupLock(r)
    \/ \E r \in R : cleanupPass(r)
    \/ Tick(T)

\* One RateLimiter and one key, under concurrent requests.
Next ==
    NextOn({"r1"}, {"a"}, {"r1"} \X (UserCells \cup {Nil}), Procs \X {"r1"}, MaxTime,
           MaxCalls)

Spec == Init /\ [][Next]_vars

\* One RateLimiter and two keys.
KeysNext ==
    NextOn({"r1"}, Keys, {"r1"} \X (UserCells \cup {Nil}), Procs \X {"r1"},
           MaxKeysTime, MaxCalls)

KeysSpec == Init /\ [][KeysNext]_vars

\* Two RateLimiters and one key, each RateLimiter with a goroutine serving it;
\* the second is built from the *Config of the first, or from one of its own.
InstsNext ==
    NextOn(Insts, {"a"}, {<<"r1", "c1">>, <<"r2", "c1">>, <<"r2", "c2">>},
           {<<"p1", "r1">>, <<"p2", "r2">>}, MaxInstsTime, MaxInstsCalls)

InstsSpec == Init /\ [][InstsNext]_vars

\* ------------------------------------------------------------ Shutdown
\* The owner of registry r asks for its shutdown. RateLimiter has no method
\* for it and keeps no handle on the goroutine New started: the request
\* reaches nothing.
Shutdown(r) ==
    /\ config[r] # Nil
    /\ r \notin shut
    /\ shut' = shut \cup {r}
    /\ UNCHANGED <<admitted, globalLimiter, mw, now, cfg, config, visitors, mx, sweeper,
                   lims, procVars, resp, hist>>

ShutdownNext == Next \/ Shutdown("r1")

ShutdownSpec == Init /\ [][ShutdownNext]_vars

\* ------------------------------------------- rate-limit.go, package level
\* Initialize(cfg): the package's config is cfg itself (DefaultConfig() for
\* nil), and one more cleanupVisitors goroutine starts.
pkgInitialize(c) ==
    /\ Len(sweeper[G]) < MaxInit
    /\ LET cell == IF c = Nil THEN DefCell(G) ELSE c
           val  == IF c = Nil THEN DefaultConfig ELSE cfg[c]
       IN /\ cfg' = [cfg EXCEPT ![cell] = val]
          /\ config' = [config EXCEPT ![G] = cell]
          /\ sweeper' = [sweeper EXCEPT ![G] = Append(@,
                 [st |-> "wait", due |-> now + val.CleanupInterval,
                  period |-> 0])]
    /\ UNCHANGED <<admitted, globalLimiter, mw, shut, now, visitors, mx, lims, procVars, resp, hist>>

\* RateLimitMiddleware(next): with no config yet, Initialize(DefaultConfig()).
pkgRateLimitMiddleware ==
    /\ config[G] = Nil
    /\ pkgInitialize(Nil)

\* The handler RateLimitMiddleware returned: ip is r.RemoteAddr.
pkgRequest(p, k) == Request(p, G, k, MaxCalls)

pkgGetVisitorLock(p) == inst[p] = G /\ getVisitorLock(p)

pkgGetVisitorCreate(p) == inst[p] = G /\ getVisitorCreate(p)

pkgGetVisitorTouch(p) == inst[p] = G /\ getVisitorTouch(p)

pkgAllow(p) == inst[p] = G /\ MiddlewareAllow(p)

\* cleanupVisitors, goroutine n: time.Sleep(config.CleanupInterval), mx.Lock().
pkgCleanupLock(n) ==
    /\ n \in 1 .. Len(sweeper[G])
    /\ sweeper[G][n].st = "wait"
    /\ now >= sweeper[G][n].due
    /\ mx[G] = "free"
    /\ mx' = [mx EXCEPT ![G] = "sweeper"]
    /\ sweeper' = [sweeper EXCEPT ![G][n].st = "locked"]
    /\ UNCHANGED <<admitted, globalLimiter, mw, shut, now, cfg, config, visitors, lims, procVars, resp, hist>>

\* The map a pass of the package's cleanupVisitors leaves behind:
\* time.Since(v.lastSeen) > config.MaxIdleTime deletes.
pkgSwept ==
    [k \in Keys |-> IF /\ Has(G, k)
                       /\ now - visitors[G][k].lastSeen > Conf(G).MaxIdleTime
                    THEN NoVisitor ELSE visitors[G][k]]

\* The loop over the map, mx.Unlock(), and the next Sleep.
pkgCleanupPass(n) ==
    /\ n \in 1 .. Len(sweeper[G])
    /\ sweeper[G][n].st = "locked"
    /\ LET v == pkgSwept
       IN /\ visitors' = [visitors EXCEPT ![G] = v]
          /\ lims' = Collect(lims, [visitors EXCEPT ![G] = v], lp)
          /\ PassHistory(G, v)
    /\ mx' = [mx EXCEPT ![G] = "free"]
    /\ sweeper' = [sweeper EXCEPT ![G][n].st = "wait",
           ![G][n].due = now + Conf(G).CleanupInterval]
    /\ UNCHANGED <<admitted, globalLimiter, mw, shut, now, cfg, config, procVars, resp>>

pkgNext ==
    \/ \E c \in UserCells : pkgInitialize(c)
    \/ pkgRateLimitMiddleware
    \/ \E p \in Procs : pkgRequest(p, "a")
    \/ \E p \in Procs : pkgGetVisitorLock(p)
    \/ \E p \in Procs : pkgGetVisitorCreate(p)
    \/ \E p \in Procs : pkgGetVisitorTouch(p)
    \/ \E p \in Procs : pkgAllow(p)
    \/ \E n \in 1 .. MaxInit : pkgCleanupLock(n)
    \/ \E n \in 1 .. MaxInit : pkgCleanupPass(n)
    \/ Tick(MaxPkgTime)

pkgSpec == Init /\ [][pkgNext]_vars

\* ------------------------------------------------------- construction
\* Every way of building a limiter, from every configuration.
ConfigInit ==
    \E v \in RawConfigs : InitWith(v, MkConfig(2, 2, Second, Second))

ConfigNext ==
    \/ \E r \in Insts, c \in UserCells \cup {Nil} : New(r, c)
    \/ \E c \in UserCells \cup {Nil} : pkgInitialize(c)
    \/ pkgRateLimitMiddleware

ConfigSpec == ConfigInit /\ [][ConfigNext]_vars

\* ------------------------------------- globalLimiter, the default instance
\* RateLimitMiddleware(next), called by goroutine p: the test globalLimiter ==
\* nil, Initialize(DefaultConfig()) when it held, and the return of
\* globalLimiter.Middleware(next). Nothing orders the calls of two goroutines,
\* so that each of the three is a step of its own.
gMiddlewareCheck(p) ==
    /\ pc[p] = "idle"
    /\ mw[p] = Nil
    /\ pc' = [pc EXCEPT ![p] = IF globalLimiter = Nil THEN "gInit" ELSE "gRet"]
    /\ UNCHANGED <<admitted, globalLimiter, mw, shut, now, cfg, config, visitors, mx,
                   sweeper, lims, inst, ip, lp, resp, hist>>

\* The RateLimiter the next New allocates.
NewInst == CHOOSE r \in Insts : config[r] = Nil /\ (r = "r1" \/ config["r1"] # Nil)

\* Initialize(DefaultConfig()): globalLimiter = New(cfg), a new RateLimiter
\* with its own cleanupVisitors goroutine.
gMiddlewareInit(p) ==
    /\ pc[p] = "gInit"
    /\ \E r \in Insts : config[r] = Nil
    /\ LET r    == NewInst
           cell == DefCell(r)
           val  == Validate(DefaultConfig)
       IN /\ cfg' = [cfg EXCEPT ![cell] = val]
          /\ config' = [config EXCEPT ![r] = cell]
          /\ visitors' = [visitors EXCEPT ![r] = [k \in Keys |-> NoVisitor]]
          /\ sweeper' = [sweeper EXCEPT ![r] =
                 << [st |-> "wait", due |-> now + val.CleanupInterval,
                     period |-> val.CleanupInterval] >>]
          /\ globalLimiter' = r
    /\ pc' = [pc EXCEPT ![p] = "gRet"]
    /\ UNCHANGED <<admitted, mw, shut, now, mx, lims, inst, ip, lp, resp, hist>>

\* return globalLimiter.Middleware(next): the handler is bound to the
\* RateLimiter globalLimiter points to now.
gMiddlewareReturn(p) ==
    /\ pc[p] = "gRet"
    /\ mw' = [mw EXCEPT ![p] = globalLimiter]
    /\ pc' = [pc EXCEPT ![p] = "idle"]
    /\ UNCHANGED <<admitted, globalLimiter, shut, now, cfg, config, visitors, mx,
                   sweeper, lims, inst, ip, lp, resp, hist>>

\* A request to the handler goroutine p got.
gRequest(p, k) ==
    /\ mw[p] # Nil
    /\ Request(p, mw[p], k, MaxLazyCalls)

\* Two goroutines make the first calls of RateLimitMiddleware, and serve
\* requests with what it returned. (The sweep of DefaultConfig() is a minute
\* away.)
LazyNext ==
    \/ \E p \in Procs : gMiddlewareCheck(p)
    \/ \E p \in Procs : gMiddlewareInit(p)
    \/ \E p \in Procs : gMiddlewareReturn(p)
    \/ \E p \in Procs : gRequest(p, "a")
    \/ \E p \in Procs : getVisitorLock(p)
    \/ \E p \in Procs : getVisitorCreate(p)
    \/ \E p \in Procs : getVisitorTouch(p)
    \/ \E p \in Procs : MiddlewareAllow(p)
    \/ Tick(MaxLazyTime)

LazySpec == Init /\ [][LazyNext]_vars

\* ------------------------------------------------------------ scheduling
\* The Go scheduler runs every goroutine that can run, and sync.Mutex hands
\* the mutex to a goroutine that waits for it: a step that stays possible is
\* taken.
LiveNext ==
    NextOn({"r1"}, {"a"}, {"r1"} \X (UserCells \cup {Nil}), Procs \X {"r1"},
           MaxLiveTime, MaxLiveCalls)

Fairness ==
    /\ \A p \in Procs :
          /\ WF_vars(getVisitorLock(p))
          /\ WF_vars(getVisitorCreate(p))
          /\ WF_vars(getVisitorTouch(p))
          /\ WF_vars(MiddlewareAllow(p))
    /\ WF_vars(cleanupLock("r1"))
    /\ WF_vars(cleanupPass("r1"))

LiveSpec == Init /\ [][LiveNext]_vars /\ Fairness

\* A longer stretch of time, which passes: the clock does not stop. One
\* goroutine serves the requests.
EvictNext ==
    NextOn({"r1"}, {"a"}, {"r1"} \X UserCells, {<<"p1", "r1">>},
           MaxEvictTime, MaxEvictCalls)

EvictFairness == Fairness /\ WF_vars(Tick(MaxEvictTime))

EvictSpec == Init /\ [][EvictNext]_vars /\ EvictFairness

\* The same of rate-limit.go.
pkgFairness ==
    /\ \A p \in Procs :
          /\ WF_vars(pkgGetVisitorLock(p))
          /\ WF_vars(pkgGetVisitorCreate(p))
          /\ WF_vars(pkgGetVisitorTouch(p))
          /\ WF_vars(pkgAllow(p))
    /\ \A n \in 1 .. MaxInit :
          /\ WF_vars(pkgCleanupLock(n))
          /\ WF_vars(pkgCleanupPass(n))

pkgLiveSpec == Init /\ [][pkgNext]_vars /\ pkgFairness

\* ------------------------------------------------------- admissions
\* One RateLimiter whose capacity is more than its rate refills in
\* MaxIdleTime (1 a second, capacity 2, MaxIdleTime a second), one goroutine
\* serving its requests one after the other, the admitted ones counted.
RateInit == InitWith(MkConfig(1, 2, Second, Second), MkConfig(2, 2, Second, Second))

RateNext ==
    \/ \E c \in UserCells : New("r1", c)
    \/ Request("p1", "r1", "a", MaxRateCalls)
    \/ getVisitorLock("p1")
    \/ getVisitorCreate("p1")
    \/ getVisitorTouch("p1")
    \/ MiddlewareAllowCounted("p1")
    \/ cleanupLock("r1")
    \/ cleanupPass("r1")
    \/ Tick(MaxRateTime)

RateSpec == RateInit /\ [][RateNext]_vars

\* ================================================================ claims
Answers(r, k) == nAdmit[r][k] + nReject[r][k]
Capacity(r) == Conf(r).Burst
\* Request p's step out of pc value "from".
Leaves(p, from) == pc[p] = from /\ pc'[p] # from
\* What the map and the memory hold for key k of registry r.
Entry(r, k) ==
    [v |-> visitors[r][k],
     l |-> IF Has(r, k) THEN lims[visitors[r][k].limiter] ELSE NoLimiter]

\* C1: of the calls made concurrently for a fresh key within one instant, one
\* creates the key's bucket, and of the n answered so far min(n, K) were
\* admitted, K being the capacity: with N > K calls, K are admitted and N - K
\* rejected.
C1_ConcurrentBurst ==
    \A r \in Insts, k \in Keys :
        (config[r] # Nil /\ fresh[r][k]) =>
            /\ nCreated[r][k] <= 1
            /\ Answers(r, k) > 0 => nCreated[r][k] = 1
            /\ nAdmit[r][k] = Min(Answers(r, k), Capacity(r))

C1_Witness ==
    \E r \in Insts, k \in Keys :
        /\ config[r] # Nil /\ fresh[r][k]
        /\ Answers(r, k) = MaxCalls /\ MaxCalls > Capacity(r)
        /\ nCreated[r][k] = 1
        /\ nAdmit[r][k] = Capacity(r)
        /\ nReject[r][k] = MaxCalls - Capacity(r)

\* C2: a bucket is created holding capacity tokens, and the Check that follows
\* i answered Checks of a fresh key in the same instant returns true exactly
\* when i < capacity: the first C return true, the (C+1)-th false.
C2_FreshBurst ==
    [][\A p \in Procs, r \in Insts, k \in Keys :
         (inst[p] = r /\ ip[p] = k) =>
            /\ Leaves(p, "create") =>
                  /\ visitors'[r][k].limiter = lp'[p]
                  /\ lims'[lp'[p]].tokens = Capacity(r) * TokScale
            /\ (Leaves(p, "allow") /\ fresh[r][k]) =>
                  /\ (resp' = "next") <=> (Answers(r, k) < Capacity(r))
                  /\ (resp' = "429") <=> (Answers(r, k) >= Capacity(r))]_vars

C2_Witness ==
    \E r \in Insts, k \in Keys :
        /\ config[r] # Nil /\ fresh[r][k]
        /\ nAdmit[r][k] = Capacity(r) /\ nReject[r][k] = 1
        /\ resp = "429"

\* C3: every bucket, in the map or in the hands of a request, holds between 0
\* and capacity tokens, now and after the refill the elapsed time is worth.
InRange(l, r) ==
    /\ 0 <= l.tokens /\ l.tokens <= Capacity(r) * TokScale
    /\ 0 <= advance(l, now) /\ advance(l, now) <= Capacity(r) * TokScale

C3_TokensInRange ==
    /\ \A r \in Insts, k \in Keys :
           Has(r, k) => InRange(lims[visitors[r][k].limiter], r)
    /\ \A p \in Procs : lp[p] # 0 => InRange(lims[lp[p]], inst[p])

\* A bucket refilled to its capacity and past it, had it no cap; and one a
\* rejected Check left with a fraction of a token.
C3_Witness ==
    \E r \in Insts, k \in Keys :
        /\ Has(r, k)
        /\ LET l == lims[visitors[r][k].limiter]
           IN \/ /\ l.tokens + tokensFromDuration(l.limit, now - l.last)
                        > Capacity(r) * TokScale
                 /\ \E p \in Procs : pc[p] = "allow" /\ lp[p] = visitors[r][k].limiter
              \/ /\ nReject[r][k] > 0
                 /\ 0 < l.tokens /\ l.tokens < TokScale

\* C4: a step of a Check of key A leaves the entry and the bucket of every other
\* key B as they were, and the first Check of a fresh B returns true whatever
\* was done to A.
C4_KeyIsolation ==
    [][\A p \in Procs, r \in Insts, a \in Keys :
         (pc[p] # "idle" /\ inst[p] = r /\ ip[p] = a) =>
            /\ pc'[p] # pc[p] =>
                  \A b \in Keys \ {a} : Entry(r, b)' = Entry(r, b)
            /\ (Leaves(p, "allow") /\ fresh[r][a] /\ Answers(r, a) = 0)
                  => resp' = "next"]_vars

C4_Witness ==
    \E r \in Insts :
        /\ config[r] # Nil
        /\ Has(r, "a") /\ nReject[r]["a"] > 0
        /\ lims[visitors[r]["a"].limiter].tokens < TokScale
        /\ fresh[r]["b"] /\ nAdmit[r]["b"] = 1 /\ nReject[r]["b"] = 0
        /\ resp = "next"

\* What a sweep pass is: the step in which the goroutine holding the mutex of
\* registry r releases it.
Pass(r) == mx[r] = "sweeper" /\ mx'[r] = "free"

\* C5: a pass removes every entry that has not been checked for MaxIdleTime or
\* longer, and the first Check of a key so removed is admitted by a new bucket.
C5_IdleEviction ==
    [][/\ \A r \in Regs, k \in Keys :
            (Pass(r) /\ Has(r, k)
                /\ now - visitors[r][k].lastSeen >= Conf(r).MaxIdleTime)
            => visitors'[r][k].limiter = 0
       /\ \A p \in Procs, r \in Regs, k \in Keys :
            (inst[p] = r /\ ip[p] = k /\ Leaves(p, "allow")
                /\ fresh[r][k] /\ Answers(r, k) = 0)
            => resp' = "next"]_vars

\* C6: of the n Checks answered in an instant that a bucket started exhausted,
\* with left tokens from its last Check and idle time since, min(n, whole
\* tokens of min(capacity, left + idle * rate)) were admitted.
Refilled(r, k) ==
    Min(Capacity(r) * TokScale,
        base[r][k].left
          + (base[r][k].idle * Conf(r).RequestsPerSecond * TokScale) \div Second)

InRangeConfig(c) ==
    /\ c.RequestsPerSecond > 0
    /\ c.Burst >= 1
    /\ c.CleanupInterval >= Second
    /\ c.MaxIdleTime >= Second

C7_Normalized == \A r \in Regs : config[r] # Nil => InRangeConfig(Conf(r))

\* C7, of New alone: in range, each out-of-range option replaced by its
\* default and the others kept.
C7_NewNormalizes ==
    [][\A r \in Insts, c \in UserCells :
         (config[r] = Nil /\ config'[r] = c) =>
            /\ InRangeConfig(cfg'[c])
            /\ cfg'[c].RequestsPerSecond =
                  (IF cfg[c].RequestsPerSecond > 0 THEN cfg[c].RequestsPerSecond
                   ELSE DefaultConfig.RequestsPerSecond)
            /\ cfg'[c].Burst =
                  (IF cfg[c].Burst >= 1 THEN cfg[c].Burst ELSE DefaultConfig.Burst)
            /\ cfg'[c].CleanupInterval =
                  (IF cfg[c].CleanupInterval >= Second THEN cfg[c].CleanupInterval
                   ELSE DefaultConfig.CleanupInterval)
            /\ cfg'[c].MaxIdleTime =
                  (IF cfg[c].MaxIdleTime >= Second THEN cfg[c].MaxIdleTime
                   ELSE DefaultConfig.MaxIdleTime)]_vars

\* C8: every step that reads or writes the visitor map of a registry, and
\* every Allow on a bucket of it, is taken by the holder of its mutex.
C8_AllUnderMutex ==
    [][\A p \in Procs, r \in Regs :
         (inst[p] = r /\ pc[p] \in {"create", "touch", "allow"} /\ pc'[p] # pc[p])
            => mx[r] = p]_vars

\* C8, of the map alone: the map of a registry changes only in a step of the
\* holder of its mutex.
C8_MapUnderMutex ==
    [][\A r \in Regs :
         visitors'[r] # visitors[r] =>
            \/ config[r] = Nil
            \/ mx[r] = "sweeper"
            \/ \E p \in Procs : mx[r] = p /\ inst[p] = r /\ pc'[p] # pc[p]]_vars

\* C9: once the shutdown of a registry is asked for, no pass starts on it and
\* no entry leaves its map.
C9_ShutdownStopsSweep ==
    [][\A r \in shut :
         /\ ~(mx[r] # "sweeper" /\ mx'[r] = "sweeper")
         /\ \A k \in Keys : Has(r, k) => visitors'[r][k].limiter # 0]_vars

\* C10: a step of one registry (its construction, a request to it, its sweep)
\* leaves the configuration, the entries and the buckets of the other as they
\* were, and a key that both track has a bucket in each.
RegState(r) ==
    [built  |-> config[r] # Nil,
     config |-> IF config[r] # Nil THEN Conf(r) ELSE DefaultConfig,
     entries |-> [k \in Keys |-> Entry(r, k)]]

StepOf(r) ==
    \/ config'[r] # config[r]
    \/ mx'[r] # mx[r]
    \/ sweeper'[r] # sweeper[r]
    \/ \E p \in Procs : pc'[p] # pc[p] /\ (inst[p] = r \/ inst'[p] = r)

C10_InstanceIsolation ==
    /\ [](\A k \in Keys :
             (Has("r1", k) /\ Has("r2", k)) =>
                 visitors["r1"][k].limiter # visitors["r2"][k].limiter)
    /\ [][\A r \in Insts, o \in Insts :
             (o # r /\ StepOf(r)) => RegState(o)' = RegState(o)]_vars

\* Both registries built, from the same *Config; the key exhausted on one and
\* admitted on the other.
C10_Witness ==
    /\ config["r1"] = config["r2"] /\ config["r1"] # Nil
    /\ Has("r1", "a") /\ Has("r2", "a")
    /\ lims[visitors["r1"]["a"].limiter].tokens < TokScale
    /\ nReject["r1"]["a"] + nReject["r2"]["a"] > 0
    /\ \E r \in Insts : nAdmit[r]["a"] = 1 /\ resp = "next"

\* C11: whatever the interleaving of the first calls of RateLimitMiddleware,
\* one default registry is built, with one sweep goroutine, and every
\* middleware returned is bound to that registry.
Built == {r \in Regs : config[r] # Nil}

C11_LazyOnce ==
    /\ Cardinality(Built) <= 1
    /\ \A r \in Regs : Len(sweeper[r]) <= 1
    /\ \A p \in Procs : mw[p] # Nil => Built = {mw[p]}

\* C12: the handler answers a request whose bucket rejects with the 429 and
\* does not call next; it answers one whose bucket admits by calling next, and
\* writes no 429; it answers in the step of its Allow, and in no other.
C12_VerdictHandling ==
    [][/\ \A p \in Procs :
            Leaves(p, "allow") =>
               /\ AllowOK(lims[lp[p]], now) => resp' = "next"
               /\ ~AllowOK(lims[lp[p]], now) => resp' = "429"
               /\ pc'[p] = "idle"
       /\ resp' \notin {resp, "none"} => \E p \in Procs : Leaves(p, "allow")]_vars

\* Both answers given, the 429 by a bucket that was found in the map.
C12_Witness ==
    \E r \in Regs, k \in Keys :
        /\ resp = "429" /\ ~fresh[r][k] /\ nReject[r][k] > 0
        /\ \A p \in Procs : pc[p] = "idle"

\* C13: when a pass is over, every entry left in the map was checked less than
\* MaxIdleTime ago: the pass removed every entry idle for MaxIdleTime or
\* longer, one idle for exactly MaxIdleTime included.
C13_PostSweep ==
    [][\A r \in Regs, k \in Keys :
         (Pass(r) /\ visitors'[r][k].limiter # 0) =>
             now' - visitors'[r][k].lastSeen < Conf(r).MaxIdleTime]_vars

\* C14: an entry leaves the map only in a step of the sweep goroutine holding
\* the registry's mutex, and only when it was last checked MaxIdleTime ago or
\* longer, so that an entry a Check has just updated is never removed; a Check
\* under way during a pass keeps a bucket of its own registry and gets its
\* verdict from it, and every entry of the map points to a bucket.
C14_EvictionRace ==
    /\ [][\A r \in Insts, k \in Keys :
            (Has(r, k) /\ visitors'[r][k].limiter = 0) =>
                /\ mx[r] = "sweeper"
                /\ now - visitors[r][k].lastSeen >= Conf(r).MaxIdleTime]_vars
    /\ [][\A p \in Procs :
            Leaves(p, "allow") => resp' \in {"next", "429"}]_vars
    /\ [](\A r \in Insts, k \in Keys :
            Has(r, k) => lims[visitors[r][k].limiter].burst = Capacity(r))
    /\ [](\A p \in Procs :
            pc[p] = "allow" =>
                lp[p] # 0 /\ lims[lp[p]].burst = Capacity(inst[p]))

\* A Check holds its bucket, yet to call Allow, and a pass has removed the
\* entry of its key meanwhile.
C14_Witness ==
    \E p \in Procs, r \in Insts :
        /\ pc[p] = "allow" /\ inst[p] = r
        /\ ~Has(r, ip[p])
        /\ sweeper[r][1].st = "wait"

\* C15: a key leaves the map of a registry in a pass of its sweep and in no
\* other step: no step of a Check, admitted or rejected, removes a key, and
\* outside of a pass the set of tracked keys only grows.
Tracked(r) == {k \in Keys : Has(r, k)}

C15_OnlySweepDeletes ==
    [][\A r \in Insts :
         /\ ~Pass(r) => Tracked(r) \subseteq Tracked(r)'
         /\ (\E p \in Procs : inst[p] = r /\ pc'[p] # pc[p])
               => Tracked(r) \subseteq Tracked(r)']_vars

\* Both keys tracked, one of them after a rejected Check, with no request
\* under way.
C15_Witness ==
    \E r \in Insts :
        /\ Tracked(r) = Keys
        /\ \E k \in Keys : nReject[r][k] > 0 /\ nAdmit[r][k] > 0
        /\ \A p \in Procs : pc[p] = "idle"

\* C16: the getVisitor of every Check leaves lastSeen of its key at the current
\* time, and comes before the verdict, which leaves lastSeen alone whether it
\* admits or rejects; lastSeen of an entry never decreases; and an entry is
\* removed only MaxIdleTime or longer after its last Check, so that a key
\* checked more often than that stays, rejected or not.
C16_LastSeen ==
    [][/\ \A p \in Procs, r \in Insts, k \in Keys :
            (inst[p] = r /\ ip[p] = k) =>
               /\ (Leaves(p, "create") \/ Leaves(p, "touch")) =>
                     /\ visitors'[r][k].limiter # 0
                     /\ visitors'[r][k].lastSeen = now
                     /\ pc'[p] = "allow" /\ resp' = resp
               /\ Leaves(p, "allow") =>
                     /\ pc[p] = "allow"
                     /\ visitors' = visitors
       /\ \A r \in Insts, k \in Keys :
            /\ (Has(r, k) /\ visitors'[r][k].limiter # 0) =>
                   visitors'[r][k].lastSeen >= visitors[r][k].lastSeen
            /\ (Has(r, k) /\ visitors'[r][k].limiter = 0) =>
                   now - visitors[r][k].lastSeen >= Conf(r).MaxIdleTime]_vars

\* A pass has run on a registry built at time 0 with a sweep every second, and
\* has left the entry of a key made before it: the key was checked less than
\* MaxIdleTime before, and rejected (its bucket of capacity 1 holds the
\* fraction of a token a rejected Allow leaves).
C16_Witness ==
    \E r \in Insts, k \in Keys :
        /\ config[r] # Nil /\ Has(r, k)
        /\ sweeper[r][1] = [st |-> "wait", due |-> 2 * Second, period |-> Second]
        /\ now < 2 * Second
        /\ lims[visitors[r][k].limiter].last < Second
        /\ Capacity(r) = 1
        /\ 0 < lims[visitors[r][k].limiter].tokens
        /\ lims[visitors[r][k].limiter].tokens < TokScale
        /\ now - visitors[r][k].lastSeen < Conf(r).MaxIdleTime
        /\ ~fresh[r][k] /\ nCreated[r][k] = 0

\* C17: the mutex of a registry is held only by a goroutine about to release
\* it (a Check inside getVisitor, or the sweep inside its pass); every Check
\* that started returns, with its verdict; every pass that took the mutex
\* releases it.
MutexHeldToRelease ==
    \A r \in Regs :
        \/ mx[r] = "free"
        \/ /\ mx[r] = "sweeper"
           /\ \E n \in 1 .. Len(sweeper[r]) : sweeper[r][n].st = "locked"
        \/ \E p \in Procs :
              mx[r] = p /\ inst[p] = r /\ pc[p] \in {"create", "touch"}

C17_NoDeadlockNoStarvation ==
    /\ []MutexHeldToRelease
    /\ \A p \in Procs : (pc[p] # "idle") ~> (pc[p] = "idle" /\ resp \in {"next", "429"})
    /\ \A r \in Regs : (mx[r] = "sweeper") ~> (mx[r] # "sweeper")

\* Two Checks wait for the mutex while the sweep holds it.
C17_Witness ==
    \E r \in Insts :
        /\ mx[r] = "sweeper"
        /\ \A p \in Procs : pc[p] = "getVisitor" /\ inst[p] = r

\* C18: the sweep keeps running, so that an entry not checked for MaxIdleTime
\* is, in the end, removed or checked again, its last Check being early enough
\* for a pass to come after MaxIdleTime within the time modelled.
Overdue(r, k) ==
    Has(r, k) /\ now - visitors[r][k].lastSeen >= Conf(r).MaxIdleTime

C18_EventuallyEvicted ==
    \A r \in Insts, k \in Keys :
        (/\ Overdue(r, k)
         /\ visitors[r][k].lastSeen + Conf(r).MaxIdleTime
                + Conf(r).CleanupInterval <= MaxEvictTime)
        ~> ~Overdue(r, k)

\* A request was answered, it is the last so far, and the map is empty again.
C18_Witness ==
    \E r \in Insts :
        /\ config[r] # Nil
        /\ resp \in {"next", "429"}
        /\ Tracked(r) = {}
        /\ \A p \in Procs : pc[p] = "idle"

\* C19: once a registry is built, the rate, the capacity, the sweep interval
\* and the idle threshold it works with never change, whatever is called
\* later.
C19_ConfigImmutable ==
    [][\A r \in Regs : config[r] # Nil => Conf(r)' = Conf(r)]_vars

\* C20: the requests of a key admitted from time 0 to now are at most
\* capacity + rate * now, evictions or not (the window that starts with the
\* registry; Second times both sides, the clock counting ticks).
C20_RateBound ==
    \A r \in Insts, k \in Keys :
        config[r] # Nil =>
            admitted[r][k] * Second
                <= Capacity(r) * Second + Conf(r).RequestsPerSecond * now

=============================================================================
